---- MODULE Spec2Model ----
(***************************************************************************)
(* Model of src/bot.py: the shark-fin stock monitor.                       *)
(*                                                                         *)
(* Time is counted in minutes (the source counts milliseconds; every       *)
(* constant of the source is a whole number of minutes).  The average      *)
(* restock delay is sum/len in the source (a float); here it is the exact  *)
(* fraction <<sum, len>> and instants derived from it are fractions        *)
(* <<num, den>>, compared by cross-multiplication.                         *)
(***************************************************************************)
EXTENDS Integers, Sequences, FiniteSets, TLC

\* ------------------------------------------------------------ constants
FLIGHT_MINUTES  == 94
BUFFER_MINUTES  == 2
WARNING_MINUTES == 10
CHECK_INTERVAL  == 1
\* predict_next_restock: 2 * 60 * 60 * 1000 ms
DEFAULT_DELAY   == 120
\* monitor: depart_time + (5 * 60 * 1000)
DEPART_GRACE    == 5
\* record_cycle: len(cycle_history) > 10
HISTORY_LIMIT   == 10

\* --------------------------------------------------------------- bounds
\* ticks of the monitor loop explored by Spec
MaxTicks    == 4
\* ticks of Spec on which a source or a send may fail
MaxFaults   == 1
\* ticks of the monitor loop explored by SpecCycle
MaxTicksCycle == 5
\* last minute at which SpecLive lets a depletion edge happen
MaxDepletionLive == 4
\* late ticks explored by SpecHist
MaxLate     == 2
\* last minute explored by SpecHist
MaxTimeHist == 27

\* Python's None for the integer-valued entries of `state`
None  == -1
\* Python's None for a fractional instant or duration
NoneR == <<0, 0>>
NoUrl == "None"
Url   == "api"

\* quantities a source reports
Qtys == {0, 5, 12}
\* minutes between two ticks (the loop asks for CHECK_INTERVAL; a tick that
\* waits on the network or the browser delays the next one)
Steps     == {CHECK_INTERVAL, 14, 24}
HistSteps == {CHECK_INTERVAL, 2}
\* SpecCycle: the clock is the wall clock, so two ticks may read the same
\* instant; a long gap lets a restock delay exceed the flight time
CycleSteps == {0, CHECK_INTERVAL, 100}

\* 'update_time' of a YATA snapshot, haw.get('update', 0) (0: absent); a
\* Prometheus snapshot carries none
UpdateTimes      == {50}
CycleUpdateTimes == {0, 215}

DirectOutcomes    == {"hit", "stale", "non200", "error"}
DiscoveryOutcomes == {"found", "found_unparsed", "nothing", "raise"}
YataOutcomes      == {"hit", "miss"}

VARIABLES
    state,      \* the module-level dict `state`
    now,        \* the clock read by now_ms() at the last tick
    loop,       \* the tasks.loop running monitor(): "idle", "running", "stopped"
    ticks,      \* number of times monitor() has been called
    faults,     \* number of ticks on which something failed or that came late
    last,       \* what the last call of monitor() did
    delivered   \* warning/depart messages delivered since the last depletion edge

vars == <<state, now, loop, ticks, faults, last, delivered>>

\* ------------------------------------------------------------ utilities
\* Python truthiness of an optional number
Truthy(x)  == x # None /\ x # 0
TruthyR(r) == r # NoneR /\ r[1] # 0

R(n)       == <<n, 1>>
LeR(a, b)  == a[1] * b[2] <= b[1] * a[2]
LtR(a, b)  == a[1] * b[2] <  b[1] * a[2]
PlusR(a, k) == <<a[1] + k * a[2], a[2]>>

RECURSIVE SumDelays(_)
SumDelays(h) == IF h = <<>> THEN 0 ELSE Head(h).restock_delay + SumDelays(Tail(h))

\* ------------------------------------------------------ data acquisition
\* get_from_prometheus: [res, url]; res is "data", "none" or "raise"
get_from_prometheus(url, direct, disc) ==
    LET fast == url # NoUrl
        url1 == IF fast /\ direct = "stale" THEN NoUrl ELSE url
    IN  IF fast /\ direct = "hit"
        THEN [res |-> "data", url |-> url]
        ELSE CASE disc = "raise"          -> [res |-> "raise", url |-> url1]
               [] disc = "found"          -> [res |-> "data",  url |-> Url]
               [] disc = "found_unparsed" -> [res |-> "none",  url |-> Url]
               [] OTHER                   -> [res |-> "none",  url |-> url1]

\* get_best_data: [res, url, prom, yata]
get_best_data(url, direct, disc, yata) ==
    LET p == get_from_prometheus(url, direct, disc)
    IN  CASE p.res = "data"  -> [res |-> "data",  url |-> p.url,
                                 prom |-> "ok",     yata |-> "skipped"]
          [] p.res = "raise" -> [res |-> "raise", url |-> p.url,
                                 prom |-> "raised", yata |-> "skipped"]
          [] OTHER           -> [res |-> IF yata = "hit" THEN "data" ELSE "none",
                                 url |-> p.url,
                                 prom |-> "failed", yata |-> yata]

\* ----------------------------------------------------- prediction engine
record_cycle_NoEvict(s, restock_t, depletion_t, next_restock_t) ==
    LET cycle == [depletion_duration |-> depletion_t    - restock_t,
                  restock_delay      |-> next_restock_t - depletion_t,
                  total              |-> next_restock_t - restock_t]
        h1    == Append(s.cycle_history, cycle)
    IN  [s EXCEPT !.cycle_history     = h1,
                  !.avg_restock_delay = <<SumDelays(h1), Len(h1)>>]

record_cycle(s, restock_t, depletion_t, next_restock_t) ==
    LET cycle == [depletion_duration |-> depletion_t    - restock_t,
                  restock_delay      |-> next_restock_t - depletion_t,
                  total              |-> next_restock_t - restock_t]
        h1    == Append(s.cycle_history, cycle)
        h2    == IF Len(h1) > HISTORY_LIMIT THEN Tail(h1) ELSE h1
    IN  [s EXCEPT !.cycle_history     = h2,
                  !.avg_restock_delay = <<SumDelays(h2), Len(h2)>>]

predict_next_restock(s, depletion_time) ==
    IF TruthyR(s.avg_restock_delay)
    THEN <<depletion_time * s.avg_restock_delay[2] + s.avg_restock_delay[1],
           s.avg_restock_delay[2]>>
    ELSE R(depletion_time + DEFAULT_DELAY)

calc_depart(restock_time) == PlusR(restock_time, 0 - FLIGHT_MINUTES - BUFFER_MINUTES)

\* --------------------------------------------------------------- embeds
\* embed_depart: the instant shown as "Landing At"
embed_depart(depart_time) == PlusR(depart_time, FLIGHT_MINUTES + BUFFER_MINUTES)

\* ------------------------------------------------------------------ bot
\* One call of dm() inside monitor(): r is [s, sent, err]; the nfail-th call
\* of the tick raises.
dm(r, kind, nfail) ==
    [r EXCEPT !.sent = Append(@, kind),
              !.err  = IF Len(r.sent) + 1 = nfail THEN kind ELSE "none"]

IsDepletion_AnyZero(prev_qty, qty) == prev_qty # None /\ qty = 0
IsDepletion(prev_qty, qty) == prev_qty # None /\ prev_qty > 0 /\ qty = 0
IsRestock(prev_qty, qty)   == prev_qty = 0 /\ qty > 0

OnDepletion(s, n) ==
    [s EXCEPT !.depletion_time     = n,
              !.next_restock       = predict_next_restock(s, n),
              !.warning_sent       = FALSE,
              !.depart_sent        = FALSE,
              !.restock_alert_sent = FALSE]

OnRestock_SwappedArgs(s, n) ==
    LET prev_restock == s.restock_time
        s1 == IF Truthy(prev_restock) /\ Truthy(s.depletion_time)
              THEN record_cycle(s, s.depletion_time, prev_restock, n)
              ELSE s
    IN  [s1 EXCEPT !.restock_time = n, !.restock_alert_sent = TRUE]

OnRestock(s, n) ==
    LET prev_restock == s.restock_time
        s1 == IF Truthy(prev_restock) /\ Truthy(s.depletion_time)
              THEN record_cycle(s, prev_restock, s.depletion_time, n)
              ELSE s
    IN  [s1 EXCEPT !.restock_time = n, !.restock_alert_sent = TRUE]

EdgeStage(r, prev_qty, qty, n, nfail) ==
    IF IsDepletion(prev_qty, qty)
    THEN dm([r EXCEPT !.s = OnDepletion(r.s, n)], "depletion", nfail)
    ELSE IF IsRestock(prev_qty, qty)
    THEN dm([r EXCEPT !.s = OnRestock(r.s, n)], "restock", nfail)
    ELSE r

InWarningWindow_NoEnd(s, n) ==
    LET depart_time == calc_depart(s.next_restock)
        warn_time   == PlusR(depart_time, 0 - WARNING_MINUTES)
    IN  LeR(warn_time, R(n))

InWarningWindow(s, n) ==
    LET depart_time == calc_depart(s.next_restock)
        warn_time   == PlusR(depart_time, 0 - WARNING_MINUTES)
    IN  LeR(warn_time, R(n)) /\ LtR(R(n), depart_time)

InDepartWindow_Swapped(s, n) ==
    LET depart_time == calc_depart(s.next_restock)
    IN  LeR(PlusR(depart_time, DEPART_GRACE), R(n)) /\ LtR(R(n), depart_time)

InDepartWindow(s, n) ==
    LET depart_time == calc_depart(s.next_restock)
    IN  LeR(depart_time, R(n)) /\ LtR(R(n), PlusR(depart_time, DEPART_GRACE))

AfterWarning_Forget(s) == s
AfterWarning(s) == [s EXCEPT !.warning_sent = TRUE]
AfterDepart(s)  == [s EXCEPT !.depart_sent = TRUE]

WarningStage(r, n, nfail) ==
    IF r.err = "none" /\ TruthyR(r.s.next_restock)
       /\ ~r.s.warning_sent /\ InWarningWindow(r.s, n)
    THEN LET r1 == dm(r, "warning", nfail)
         IN  IF r1.err = "none" THEN [r1 EXCEPT !.s = AfterWarning(r1.s)] ELSE r1
    ELSE r

DepartStage(r, n, nfail) ==
    IF r.err = "none" /\ TruthyR(r.s.next_restock)
       /\ ~r.s.depart_sent /\ InDepartWindow(r.s, n)
    THEN LET depart_time == calc_depart(r.s.next_restock)
             r1 == dm([r EXCEPT !.landing = embed_depart(depart_time)], "depart", nfail)
         IN  IF r1.err = "none" THEN [r1 EXCEPT !.s = AfterDepart(r1.s)] ELSE r1
    ELSE r

\* monitor() when get_best_data() returned no snapshot
MonitorNoData_Reset(s) == [s EXCEPT !.quantity = None]
MonitorNoData(s) == s

\* the body with the quantity stored only once every send went through
MonitorBody_CommitAfterSend(s, n, qty, nfail) ==
    LET prev_qty == s.quantity
        r0 == [s |-> [s EXCEPT !.quantity = qty], sent |-> <<>>, err |-> "none",
               landing |-> NoneR]
        r1 == EdgeStage(r0, prev_qty, qty, n, nfail)
        r2 == WarningStage(r1, n, nfail)
        r3 == DepartStage(r2, n, nfail)
    IN  IF r3.err = "none" THEN r3 ELSE [r3 EXCEPT !.s.quantity = prev_qty]

\* the body of monitor() after a snapshot with quantity qty was acquired
MonitorBody(s, n, qty, nfail) ==
    LET prev_qty == s.quantity
        r0 == [s |-> [s EXCEPT !.quantity = qty], sent |-> <<>>, err |-> "none",
               landing |-> NoneR]
        r1 == EdgeStage(r0, prev_qty, qty, n, nfail)
        r2 == WarningStage(r1, n, nfail)
    IN  DepartStage(r2, n, nfail)

Attempted(l, kind) == \E i \in 1..Len(l.sent) : l.sent[i] = kind
Delivered(l, kind) == Attempted(l, kind) /\ l.err # kind

Count(l, kind, old) ==
    (IF Attempted(l, "depletion") THEN 0 ELSE old)
        + (IF Delivered(l, kind) THEN 1 ELSE 0)

\* every result get_best_data() can have on a tick, given the cached endpoint
Acquisitions(url) ==
    { get_best_data(url, direct, disc, yata) :
        direct \in DirectOutcomes, disc \in DiscoveryOutcomes, yata \in YataOutcomes }

\* The end of one run of the monitor() coroutine by the task loop at minute n:
\* acq is what get_best_data() did, r what the body did.  An exception leaving
\* monitor() either stops the loop for good (fatal) or is retried by the loop,
\* depending on its type.
Finish(n, acq, r, update_time, fatal, late, budget) ==
    LET l      == [acq |-> acq.res, prom |-> acq.prom, yata |-> acq.yata,
                   sent |-> r.sent, err |-> r.err, landing |-> r.landing,
                   update_time |-> update_time]
        faulty == late \/ acq.prom # "ok" \/ r.err # "none"
    IN  /\ faulty => faults < budget
        /\ now' = n
        /\ state' = r.s
        /\ last' = l
        /\ loop' = IF fatal THEN "stopped" ELSE "running"
        /\ ticks' = ticks + 1
        /\ faults' = IF faulty THEN faults + 1 ELSE faults
        /\ delivered' = [warning |-> Count(l, "warning", delivered.warning),
                         depart  |-> Count(l, "depart", delivered.depart)]

\* One run of monitor(), d minutes after the previous one.
Tick(d, acq, qtys, utimes, nfails, late, budget) ==
    LET n  == now + d
        s0 == [state EXCEPT !.prometheus_api_url = acq.url]
    IN  CASE acq.res = "data" ->
               \E qty \in qtys, nfail \in nfails,
                  update_time \in (IF acq.yata = "hit" THEN utimes ELSE {None}) :
                 LET r == MonitorBody(s0, n, qty, nfail)
                 IN  /\ nfail <= Len(r.sent)
                     /\ \E fatal \in (IF r.err = "none" THEN {FALSE} ELSE BOOLEAN) :
                          Finish(n, acq, r, update_time, fatal, late, budget)
          [] acq.res = "none" ->
               Finish(n, acq, [s |-> MonitorNoData(s0), sent |-> <<>>, err |-> "none",
                               landing |-> NoneR],
                      None, FALSE, late, budget)
          [] OTHER ->
               \E fatal \in BOOLEAN :
                 Finish(n, acq, [s |-> s0, sent |-> <<>>, err |-> "none", landing |-> NoneR],
                        None, fatal, late, budget)

\* on_ready: the start-up message, then monitor.start()
on_ready ==
    /\ loop = "idle"
    /\ \E ok \in BOOLEAN : loop' = IF ok THEN "running" ELSE "stopped"
    /\ UNCHANGED <<state, now, ticks, faults, last, delivered>>

monitor ==
    /\ loop = "running"
    /\ ticks < MaxTicks
    /\ \E d \in Steps, acq \in Acquisitions(state.prometheus_api_url) :
         Tick(d, acq, Qtys, UpdateTimes, 0..2, FALSE, MaxFaults)

\* monitor() while the stock flips between sold out and available on every
\* tick and nothing fails; at most MaxLate ticks come a minute late
monitor_flip ==
    /\ loop = "running"
    /\ \E d \in HistSteps, acq \in Acquisitions(state.prometheus_api_url) :
         /\ now + d <= MaxTimeHist
         /\ acq.prom = "ok"
         /\ Tick(d, acq,
                 {q \in {0, 5} : state.quantity = None \/ (state.quantity = 0) # (q = 0)},
                 UpdateTimes, {0}, d # CHECK_INTERVAL, MaxLate)

\* monitor() over whole depletion/restock cycles, the clock free to stand
\* still or to jump
monitor_cycle ==
    /\ loop = "running"
    /\ ticks < MaxTicksCycle
    /\ \E d \in CycleSteps, acq \in Acquisitions(state.prometheus_api_url) :
         Tick(d, acq, {0, 5}, CycleUpdateTimes, 0..1, FALSE, MaxFaults)

\* monitor() run every CHECK_INTERVAL with every acquisition and every send
\* succeeding; once a depletion edge has opened a cycle the stock stays at
\* zero until the depart message of the cycle is out
TimeLimitLive == MaxDepletionLive + DEFAULT_DELAY - FLIGHT_MINUTES
monitor_live ==
    /\ loop = "running"
    /\ now + CHECK_INTERVAL <= TimeLimitLive
    /\ \E acq \in Acquisitions(state.prometheus_api_url) :
         /\ acq.prom = "ok"
         /\ Tick(CHECK_INTERVAL, acq,
                 IF state.quantity = 0 /\ TruthyR(state.next_restock)
                    /\ ~state.depart_sent
                 THEN {0}
                 ELSE {q \in {0, 5} : (state.quantity # None /\ state.quantity > 0 /\ q = 0)
                                       => now + CHECK_INTERVAL <= MaxDepletionLive},
                 {None}, {0}, FALSE, 0)

Init ==
    /\ state = [quantity           |-> None,
                depletion_time     |-> None,
                restock_time       |-> None,
                next_restock       |-> NoneR,
                warning_sent       |-> FALSE,
                depart_sent        |-> FALSE,
                restock_alert_sent |-> FALSE,
                cycle_history      |-> <<>>,
                avg_restock_delay  |-> NoneR,
                prometheus_api_url |-> NoUrl]
    /\ now = 1
    /\ loop = "idle"
    /\ ticks = 0
    /\ faults = 0
    /\ last = [acq |-> "never", prom |-> "ok", yata |-> "skipped",
               sent |-> <<>>, err |-> "none", landing |-> NoneR,
               update_time |-> None]
    /\ delivered = [warning |-> 0, depart |-> 0]

Next == on_ready \/ monitor

Spec == Init /\ [][Next]_vars

NextHist == on_ready \/ monitor_flip

SpecHist == Init /\ [][NextHist]_vars

NextCycle == on_ready \/ monitor_cycle

SpecCycle == Init /\ [][NextCycle]_vars

NextLive == on_ready \/ monitor_live

\* the task loop calls monitor() again as long as it is running
SpecLive == Init /\ [][NextLive]_vars /\ WF_vars(monitor_live)

\* ---------------------------------------------------------------- claims
Ticked      == ticks' = ticks + 1
Observed    == Ticked /\ last'.acq = "data"
\* the edges of the claims, read off the stored and the new quantity
DepletionEdge == Observed /\ state.quantity # None /\ state.quantity > 0
                    /\ state'.quantity = 0
RestockEdge   == Observed /\ state.quantity = 0 /\ state'.quantity > 0

\* C1: on a tick that acquired a snapshot, a depletion notification is sent
\* exactly when the stored quantity is known and positive and the new one is
\* 0, and a restock notification exactly when the stored quantity is 0 and
\* the new one is positive; a first observation and a repeated quantity send
\* neither.
C1_EdgeNotifications ==
    [][Observed =>
        /\ Attempted(last', "depletion") <=> DepletionEdge
        /\ Attempted(last', "restock") <=> RestockEdge
        /\ (state.quantity = None \/ state'.quantity = state.quantity)
              => ~Attempted(last', "depletion") /\ ~Attempted(last', "restock")]_vars

\* a restock notification closing a cycle that began with a depletion edge
C1_Witness ==
    /\ Attempted(last, "restock")
    /\ state.depletion_time # None
    /\ state.quantity = 12

\* C2: between two consecutive depletion edges the warning is delivered at
\* most once and the depart message at most once, and warning_sent and
\* depart_sent fall back to false only on a tick with a depletion edge.
C2_OncePerCycle ==
    /\ [](delivered.warning <= 1 /\ delivered.depart <= 1)
    /\ [][((state.warning_sent /\ ~state'.warning_sent)
            \/ (state.depart_sent /\ ~state'.depart_sent)) => DepletionEdge]_vars

\* a tick inside the warning window after the warning of this cycle was
\* delivered: it sends nothing
C2_Witness ==
    /\ delivered.warning = 1
    /\ state.warning_sent
    /\ last.acq = "data"
    /\ last.sent = <<>>
    /\ InWarningWindow(state, now)

\* C3: a warning or depart notification is sent only on a tick whose
\* observed quantity is zero.
C3_CountdownOnlyWhenDepleted ==
    (Attempted(last, "warning") \/ Attempted(last, "depart")) => state.quantity = 0

\* C4: a tick whose acquisition yields no snapshot sends nothing and leaves
\* every entry of the monitor state but the cached endpoint as it was, so the
\* stored quantity is still the last one observed.
C4_FailedAcquisitionSkipsTick ==
    [][(Ticked /\ last'.acq = "none") =>
        /\ last'.sent = <<>>
        /\ [state' EXCEPT !.prometheus_api_url = state.prometheus_api_url] = state]_vars

\* a failed acquisition after a quantity has been observed
C4_Witness ==
    /\ last.acq = "none"
    /\ state.quantity = 0
    /\ TruthyR(state.next_restock)

\* C5: when the send of a notification fails, its flag is still false at the
\* end of that tick.
C5_FlagOnlyAfterSuccess ==
    /\ last.err = "warning" => ~state.warning_sent
    /\ last.err = "depart"  => ~state.depart_sent
    /\ last.err = "restock" => ~state.restock_alert_sent

\* C6: after a tick in which a warning or depart send fails, the monitor
\* loop is still running.
C6_DeliveryFailureNotFatal ==
    last.err \in {"warning", "depart"} => loop = "running"

\* C7: cycle_history never holds more than 10 entries, and record_cycle on a
\* full history leaves its 9 most recent entries followed by the new one.
C7_HistoryBounded ==
    /\ [](Len(state.cycle_history) <= 10)
    /\ [][(RestockEdge /\ Truthy(state.restock_time) /\ Truthy(state.depletion_time)
            /\ Len(state.cycle_history) = 10) =>
          /\ Len(state'.cycle_history) = 10
          /\ \A i \in 1..9 : state'.cycle_history[i] = state.cycle_history[i + 1]
          /\ state'.cycle_history[10] =
               [depletion_duration |-> state.depletion_time - state.restock_time,
                restock_delay      |-> now' - state.depletion_time,
                total              |-> now' - state.restock_time]]_vars

\* a restock edge late enough that more than 10 cycles have been recorded
C7_Witness ==
    /\ Len(state.cycle_history) = 10
    /\ Attempted(last, "restock")
    /\ ticks >= 25

\* C8: every restock edge with a known depletion instant appends exactly one
\* record with delay = now - depletion_time, the first cycle after start-up
\* included; any other tick leaves cycle_history as it was.
C8_RecordOnEveryRestockEdge ==
    [][Ticked =>
        LET h  == state.cycle_history
            h1 == state'.cycle_history
        IN  IF RestockEdge
            THEN state.depletion_time # None =>
                   /\ Len(h1) > 0
                   /\ h1[Len(h1)].restock_delay = now' - state.depletion_time
                   /\ \/ h1 = Append(h, h1[Len(h1)])
                      \/ Len(h) = HISTORY_LIMIT /\ h1 = Append(Tail(h), h1[Len(h1)])
            ELSE h1 = h]_vars

\* C9: whenever the primary source fails on a tick, by returning nothing or
\* by raising, the secondary source is tried on that tick, and no snapshot
\* results only if both failed.
C9_FallbackAlwaysTried ==
    last.acq \in {"data", "none", "raise"} =>
        /\ last.prom # "ok" => last.yata # "skipped"
        /\ last.acq # "data" => last.prom # "ok" /\ last.yata = "miss"

\* C10: with the stock depleted and depart_sent false, a tick anywhere in
\* [depart, depart + 30 min) sends the depart notification and sets
\* depart_sent.
C10_DepartWithinThirtyMinutes ==
    [][(/\ Observed
        /\ last'.err = "none"
        /\ state'.quantity = 0
        /\ ~state.depart_sent
        /\ TruthyR(state'.next_restock)
        /\ LeR(calc_depart(state'.next_restock), R(now'))
        /\ LtR(R(now'), PlusR(calc_depart(state'.next_restock), 30)))
       => Attempted(last', "depart") /\ state'.depart_sent]_vars

\* C11: when the first tick after start-up observes quantity 0 with a restock
\* instant known from the snapshot and the tick is already past the warning
\* instant and the end of the depart window, warning_sent and depart_sent are
\* both true after it, and it sent neither a depart nor a depletion message.
C11_RestartRecovery ==
    (/\ ticks = 1
     /\ last.acq = "data"
     /\ state.quantity = 0
     /\ last.update_time # None /\ last.update_time > 0
     /\ LeR(PlusR(calc_depart(R(last.update_time)), 30), R(now)))
    => /\ state.warning_sent
       /\ state.depart_sent
       /\ ~Attempted(last, "depart")
       /\ ~Attempted(last, "depletion")

\* C13: while the stock is available no restock instant is active: a restock
\* edge clears next_restock and it stays unset until the next depletion edge.
C13_RestockClearsPrediction ==
    (state.quantity # None /\ state.quantity > 0) => ~TruthyR(state.next_restock)

\* C15: the landing instant shown with the depart notification is
\* departInstant + FLIGHT_MINUTES.
C15_LandingIsDepartPlusFlight ==
    Attempted(last, "depart") =>
        last.landing = PlusR(calc_depart(state.next_restock), FLIGHT_MINUTES)

C18_WarningBeforeDepart ==
    [][Ticked =>
        /\ ~(Attempted(last', "warning") /\ Attempted(last', "depart"))
        /\ (delivered.depart >= 1 /\ ~DepletionEdge) => ~Attempted(last', "warning")]_vars

\* the tick at the depart instant itself, where the two windows meet, with
\* the warning of the cycle not sent yet
C18_Witness ==
    /\ last.sent = <<"depart">>
    /\ ~state.warning_sent
    /\ R(now) = calc_depart(state.next_restock)

\* C19: the observed quantity is stored before any send, so a tick whose
\* depletion or restock send failed leaves the new quantity in place and the
\* next tick does not attempt that notification again.
C19_EdgeAttemptedOnce ==
    /\ [](/\ last.err = "depletion" => state.quantity = 0
          /\ last.err = "restock" => state.quantity > 0)
    /\ [][(Ticked /\ last.err \in {"depletion", "restock"})
            => ~Attempted(last', last.err)]_vars

\* a failed depletion send that the loop survives
C19_Witness ==
    /\ last.err = "depletion"
    /\ loop = "running"
    /\ state.quantity = 0
    /\ state.depletion_time = now

\* C12: when a restock instant u arrives with a snapshot while the cycle is
\* predicted as depletion + D (D the average delay), the average delay
\* becomes D + 0.3 * (u - predicted) if |u - predicted| exceeds 5 minutes and
\* stays D otherwise.
C12_SelfCalibration ==
    [][(/\ Observed
        /\ last'.update_time # None /\ last'.update_time > 0
        /\ state'.quantity = 0
        /\ TruthyR(state.avg_restock_delay)
        /\ TruthyR(state'.next_restock))
       => LET D   == state.avg_restock_delay
              D1  == state'.avg_restock_delay
              p   == state'.next_restock
              \* error = u - predicted, as the fraction e / p[2]
              e   == last'.update_time * p[2] - p[1]
              abs == IF e < 0 THEN 0 - e ELSE e
          IN  IF abs > 5 * p[2]
              THEN /\ D1 # NoneR
                   /\ D1[1] * (10 * D[2] * p[2])
                        = D1[2] * (10 * D[1] * p[2] + 3 * e * D[2])
              ELSE D1 = D]_vars

\* C14: on a depletion edge at n, next_restock is n + the mean of the restock
\* delays in cycle_history when that is non-empty (a mean of 0 included) and
\* n + 2 hours exactly when it is empty.
C14_PredictionFromMean ==
    [][DepletionEdge =>
        LET h == state.cycle_history
            p == state'.next_restock
        IN  IF h # <<>>
            THEN p # NoneR /\ p[1] * Len(h) = (now' * Len(h) + SumDelays(h)) * p[2]
            ELSE p = R(now' + 120)]_vars

\* C20: every entry of cycle_history has depletion_duration >= 0,
\* restock_delay >= 0 and total = depletion_duration + restock_delay: the
\* depletion instant that closes a cycle is never older than the restock
\* instant before it.
C20_CyclesWellOrdered ==
    \A i \in 1..Len(state.cycle_history) :
        LET c == state.cycle_history[i]
        IN  /\ c.depletion_duration >= 0
            /\ c.restock_delay >= 0
            /\ c.total = c.depletion_duration + c.restock_delay

\* a recorded cycle whose two phases both took time
C20_Witness ==
    /\ Len(state.cycle_history) >= 1
    /\ state.cycle_history[1].depletion_duration > 0
    /\ state.cycle_history[1].restock_delay > 0

\* a running cycle whose depart instant lies after its depletion tick and
\* whose depart notification is not out yet
AwaitingDepart ==
    /\ loop = "running"
    /\ state.quantity = 0
    /\ state.depletion_time # None
    /\ TruthyR(state.next_restock)
    /\ LtR(R(state.depletion_time), calc_depart(state.next_restock))
    /\ ~state.depart_sent

\* the depart notification of the running cycle has been delivered
DepartOut == state.depart_sent /\ delivered.depart = 1

\* C17: in a cycle whose depart instant lies after the depletion tick, with
\* the stock staying at zero, every acquisition and send succeeding and a
\* tick every CHECK_INTERVAL, the depart notification is eventually sent.
C17_DepartEventuallySent == AwaitingDepart ~> DepartOut

\* the tick that sends the depart notification of such a cycle
C17_Witness ==
    /\ Delivered(last, "depart")
    /\ state.depart_sent
    /\ state.quantity = 0
    /\ LtR(R(state.depletion_time), calc_depart(state.next_restock))

====
